---- MODULE Spec2Model ----
(***************************************************************************)
(* Model of the two Google Workspace scripts of chittyos-integrations:     *)
(*   google_workspace_config/setup_workspace.py  (authenticate,            *)
(*       create_groups)                                                    *)
(*   quick_auth_setup.py  (try_authentication, test_workspace_access,      *)
(*       main)                                                             *)
(* Each script is a sequential program; remote calls, file contents and    *)
(* library outcomes are the nondeterministic inputs.                       *)
(***************************************************************************)
EXTENDS Integers, Sequences, FiniteSets, TLC

\* ---------------------------------------------------------------- bounds
MaxRows == 2          \* data rows in groups/entity_groups.csv
MaxOwnersLen == 2     \* characters in one row's Owners field

\* ------------------------------------------------------------- variables
VARIABLES
    \* setup_workspace.py : create_groups
    header,      \* fieldnames of the csv.DictReader (set of column names)
    nRows,       \* number of data rows in the CSV file
    rows,        \* rows the reader has yielded so far (their Owners field)
    gpc,         \* position of create_groups
    owners,      \* the list row['Owners'].split(';') of the current row
    oi,          \* index of the owner the inner loop is at
    calls,       \* remote calls issued by create_groups, in order
    errors,      \* rows whose except block ran
    \* setup_workspace.py : authenticate
    files,       \* token.json / credentials.json on disk
    loaded,      \* credential loaded from token.json (NoCreds if none)
    creds,       \* local variable creds
    apc,         \* position of authenticate
    events,      \* refresh / interactive flow / file writes, in order
    \* quick_auth_setup.py
    saFiles,     \* service-account paths for which os.path.exists is true
    qpc,         \* position of main / try_authentication
    saIdx,       \* index into service_account_paths
    attempts,    \* authentication methods attempted, with their outcome
    qcalls,      \* remote calls issued by the quick-auth script
    result,      \* (credentials, service) returned by try_authentication
    testResult,  \* return value of test_workspace_access
    marker       \* auth_working.json has been written

varsG == <<header, nRows, rows, gpc, owners, oi, calls, errors>>
varsA == <<files, loaded, creds, apc, events>>
varsQ == <<saFiles, qpc, saIdx, attempts, qcalls, result, testResult, marker>>
vars == <<header, nRows, rows, gpc, owners, oi, calls, errors,
          files, loaded, creds, apc, events,
          saFiles, qpc, saIdx, attempts, qcalls, result, testResult, marker>>

\* ============================================================ create_groups

Columns == {"Group Email", "Group Name", "Description", "Owners"}

BodyColumns == {"Group Email", "Group Name", "Description"}

Chars == {"a", ";"}

RECURSIVE StringsUpTo(_)
StringsUpTo(n) ==
    IF n = 0 THEN {<<>>}
    ELSE LET S == StringsUpTo(n - 1)
         IN S \cup {Append(s, c) : s \in {t \in S : Len(t) = n - 1}, c \in Chars}

\* value of row['Owners'] as csv.DictReader delivers it: the key is absent
\* when the header has no such column, None (restval) when the row is short,
\* otherwise the text of the field
OwnersValues(h) ==
    IF "Owners" \in h
    THEN {[kind |-> "none", text |-> <<>>]}
         \cup {[kind |-> "str", text |-> s] : s \in StringsUpTo(MaxOwnersLen)}
    ELSE {[kind |-> "absent", text |-> <<>>]}

\* str.split(';')
RECURSIVE split(_)
split(s) ==
    IF \A i \in 1..Len(s) : s[i] # ";"
    THEN <<s>>
    ELSE LET i == CHOOSE j \in 1..Len(s) :
                      s[j] = ";" /\ \A k \in 1..(j - 1) : s[k] # ";"
         IN <<SubSeq(s, 1, i - 1)>> \o split(SubSeq(s, i + 1, Len(s)))

cur == Len(rows)

GroupCall(r, ok) == [op |-> "groups.insert", row |-> r, idx |-> 0, ok |-> ok]

MemberCall(r, i, ok) == [op |-> "members.insert", row |-> r, idx |-> i, ok |-> ok]

IdleA ==
    /\ files = [f \in {"token.json", "credentials.json"} |-> [kind |-> "absent"]]
    /\ loaded = [kind |-> "None"]
    /\ creds = [kind |-> "None"]
    /\ apc = "idle"
    /\ events = <<>>

IdleG ==
    /\ header = {}
    /\ nRows = 0
    /\ rows = <<>>
    /\ gpc = "idle"
    /\ owners = <<>>
    /\ oi = 0
    /\ calls = <<>>
    /\ errors = {}

IdleQ ==
    /\ saFiles = {}
    /\ qpc = "idle"
    /\ saIdx = 0
    /\ attempts = <<>>
    /\ qcalls = <<>>
    /\ result = "None"
    /\ testResult = "unset"
    /\ marker = FALSE

InitGroups ==
    /\ header \in SUBSET Columns
    /\ nRows \in 0..MaxRows
    /\ rows = <<>>
    /\ gpc = "loop"
    /\ owners = <<>>
    /\ oi = 0
    /\ calls = <<>>
    /\ errors = {}
    /\ IdleA
    /\ IdleQ

\* for row in reader: the reader yields the next row, or the loop ends
NextRow ==
    /\ gpc = "loop"
    /\ cur < nRows
    /\ \E v \in OwnersValues(header) : rows' = Append(rows, v)
    /\ gpc' = "build"
    /\ UNCHANGED <<header, nRows, owners, oi, calls, errors>>
    /\ UNCHANGED <<varsA, varsQ>>

EndOfFile ==
    /\ gpc = "loop"
    /\ cur = nRows
    /\ gpc' = "done"
    /\ UNCHANGED <<header, nRows, rows, owners, oi, calls, errors>>
    /\ UNCHANGED <<varsA, varsQ>>

\* group_body = {...}: three subscripts of row, before the try statement;
\* a KeyError here leaves create_groups
BuildGroupBody ==
    /\ gpc = "build"
    /\ gpc' = IF BodyColumns \subseteq header THEN "insert" ELSE "raised"
    /\ UNCHANGED <<header, nRows, rows, owners, oi, calls, errors>>
    /\ UNCHANGED <<varsA, varsQ>>

GroupsInsertUncaught ==
    /\ gpc = "insert"
    /\ \E ok \in BOOLEAN :
         /\ calls' = Append(calls, GroupCall(cur, ok))
         /\ gpc' = IF ok THEN "owners" ELSE "raised"
         /\ errors' = errors
    /\ UNCHANGED <<header, nRows, rows, owners, oi>>
    /\ UNCHANGED <<varsA, varsQ>>

GroupsInsertAbortsLoop ==
    /\ gpc = "insert"
    /\ \E ok \in BOOLEAN :
         /\ calls' = Append(calls, GroupCall(cur, ok))
         /\ gpc' = IF ok THEN "owners" ELSE "done"
         /\ errors' = IF ok THEN errors ELSE errors \cup {cur}
    /\ UNCHANGED <<header, nRows, rows, owners, oi>>
    /\ UNCHANGED <<varsA, varsQ>>

\* service.groups().insert(body=group_body).execute()
GroupsInsert ==
    /\ gpc = "insert"
    /\ \E ok \in BOOLEAN :
         /\ calls' = Append(calls, GroupCall(cur, ok))
         /\ gpc' = IF ok THEN "owners" ELSE "loop"
         /\ errors' = IF ok THEN errors ELSE errors \cup {cur}
    /\ UNCHANGED <<header, nRows, rows, owners, oi>>
    /\ UNCHANGED <<varsA, varsQ>>

\* owners = row['Owners'].split(';') : KeyError when the column is absent,
\* AttributeError when the value is None, both caught by the except block
SplitOwners ==
    /\ gpc = "owners"
    /\ IF rows[cur].kind = "str"
       THEN /\ owners' = split(rows[cur].text)
            /\ oi' = 1
            /\ gpc' = "member"
            /\ errors' = errors
       ELSE /\ owners' = owners
            /\ oi' = oi
            /\ gpc' = "loop"
            /\ errors' = errors \cup {cur}
    /\ UNCHANGED <<header, nRows, rows, calls>>
    /\ UNCHANGED <<varsA, varsQ>>

MembersInsertKeepsGoing ==
    /\ gpc = "member"
    /\ \E ok \in BOOLEAN :
         /\ calls' = Append(calls, MemberCall(cur, oi, ok))
         /\ gpc' = IF oi < Len(owners) THEN "member" ELSE "loop"
         /\ oi' = oi + 1
         /\ errors' = IF ok THEN errors ELSE errors \cup {cur}
    /\ UNCHANGED <<header, nRows, rows, owners>>
    /\ UNCHANGED <<varsA, varsQ>>

\* for owner in owners: service.members().insert(...).execute()
MembersInsert ==
    /\ gpc = "member"
    /\ \E ok \in BOOLEAN :
         /\ calls' = Append(calls, MemberCall(cur, oi, ok))
         /\ gpc' = IF ok /\ oi < Len(owners) THEN "member" ELSE "loop"
         /\ oi' = IF ok THEN oi + 1 ELSE oi
         /\ errors' = IF ok THEN errors ELSE errors \cup {cur}
    /\ UNCHANGED <<header, nRows, rows, owners>>
    /\ UNCHANGED <<varsA, varsQ>>

NextGroups ==
    \/ NextRow
    \/ EndOfFile
    \/ BuildGroupBody
    \/ GroupsInsert
    \/ SplitOwners
    \/ MembersInsert

SpecGroups == InitGroups /\ [][NextGroups]_vars

\* ------------------------------------------------- properties: create_groups

GroupCallsOf(r) == {k \in 1..Len(calls) : calls[k].op = "groups.insert" /\ calls[k].row = r}

MemberCallsOf(r) == {k \in 1..Len(calls) : calls[k].op = "members.insert" /\ calls[k].row = r}

MemberCallsAt(r, i) == {k \in MemberCallsOf(r) : calls[k].idx = i}

GroupCreated(r) == \E k \in GroupCallsOf(r) : calls[k].ok

\* every column is in the header and every row read has a text in Owners
WellFormed ==
    /\ header = Columns
    /\ \A r \in 1..Len(rows) : rows[r].kind = "str"

Listed(r) == Len(split(rows[r].text))

\* number of owners of row r up to and including the first whose
\* members.insert failed
RECURSIVE FirstFailure(_, _)
FirstFailure(r, i) ==
    IF i > Listed(r) THEN Listed(r)
    ELSE IF \E k \in MemberCallsAt(r, i) : ~calls[k].ok THEN i
    ELSE FirstFailure(r, i + 1)

\* C1 (as stated): when create_groups has run over a CSV of N well-formed
\* rows, it has issued exactly N groups.insert calls and, for every row,
\* exactly one members.insert call per entry of the row's Owners list,
\* whatever calls failed.
C1_OneMemberCallPerOwnerAlways ==
    (gpc = "done" /\ WellFormed) =>
        /\ Len(rows) = nRows
        /\ \A r \in 1..nRows : Cardinality(GroupCallsOf(r)) = 1
        /\ \A r \in 1..nRows : \A i \in 1..Listed(r) :
               Cardinality(MemberCallsAt(r, i)) = 1

\* C1 (amended): when create_groups has run over a CSV of N well-formed
\* rows, it has issued exactly N groups.insert calls, one per row, whatever
\* calls failed; a row whose groups.insert failed has no members.insert
\* call, and a row whose groups.insert succeeded has exactly one
\* members.insert call for each entry of its split Owners list up to and
\* including the first entry whose call failed, and none after it.
C1_GroupPerRowMembersUpToFirstFailure ==
    (gpc = "done" /\ WellFormed) =>
        /\ Len(rows) = nRows
        /\ \A r \in 1..nRows : Cardinality(GroupCallsOf(r)) = 1
        /\ \A r \in 1..nRows : \A i \in 1..Listed(r) :
               Cardinality(MemberCallsAt(r, i)) =
                   IF GroupCreated(r) /\ i <= FirstFailure(r, 1) THEN 1 ELSE 0
        /\ \A k \in 1..Len(calls) :
               calls[k].op = "members.insert" => calls[k].idx \in 1..Listed(calls[k].row)

\* a finished run over two well-formed rows in which one groups.insert
\* failed and one members.insert failed with an owner still to come
C1_Witness ==
    /\ gpc = "done"
    /\ WellFormed
    /\ nRows = 2
    /\ \E r \in 1..nRows : ~GroupCreated(r) /\ Listed(r) >= 2
    /\ \E r \in 1..nRows : GroupCreated(r) /\ FirstFailure(r, 1) < Listed(r)

\* C2: a CSV that lacks one of the four required columns makes only the
\* iterations of its rows fail: no exception leaves create_groups and
\* every row of the file is still iterated.
C2_MissingColumnCaughtPerRow ==
    (Cardinality(Columns \ header) = 1) =>
        /\ gpc # "raised"
        /\ (gpc = "done" => Len(rows) = nRows)

\* C3: a failed groups.insert or members.insert is caught in its row's
\* iteration and the loop goes on with the next row; nothing is retried or
\* undone: each row has at most one groups.insert, each (row, owner
\* position) at most one members.insert, the only remote operations are the
\* two inserts, a failed call is the last call of its row, and a run whose
\* rows all have the body columns ends with every row attempted.
C3_FailuresCaughtNoRetryNoRollback ==
    /\ \A k \in 1..Len(calls) : calls[k].op \in {"groups.insert", "members.insert"}
    /\ \A r \in 1..Len(rows) : Cardinality(GroupCallsOf(r)) <= 1
    /\ \A k \in 1..Len(calls) : \A m \in 1..Len(calls) :
           (calls[k].op = "members.insert" /\ calls[k].row = calls[m].row
                /\ calls[k].idx = calls[m].idx) => k = m
    /\ \A k \in 1..Len(calls) : ~calls[k].ok =>
           /\ calls[k].row \in errors
           /\ gpc # "raised"
           /\ \A m \in (k + 1)..Len(calls) : calls[m].row > calls[k].row
    /\ (BodyColumns \subseteq header /\ calls # <<>> /\ ~calls[Len(calls)].ok) =>
           gpc \in {"loop", "build", "insert", "done"}
    /\ (BodyColumns \subseteq header /\ gpc = "done") =>
           \A r \in 1..nRows : Cardinality(GroupCallsOf(r)) = 1

\* a finished run in which a groups.insert failed on the first row, a
\* members.insert failed on a later row, and a row after a failure was
\* still attempted
C3_Witness ==
    /\ gpc = "done"
    /\ nRows = 2
    /\ \E k \in GroupCallsOf(1) : ~calls[k].ok
    /\ \E k \in MemberCallsOf(2) : ~calls[k].ok

\* C10: every members.insert of a row comes after that row's successful
\* groups.insert, owners are attempted in list order, and no owner is
\* attempted after a failed members.insert of the same row.
C10_MembersAfterGroupInOrderStopAtFailure ==
    \A k \in 1..Len(calls) : calls[k].op = "members.insert" =>
        /\ \E g \in 1..(k - 1) :
               calls[g] = GroupCall(calls[k].row, TRUE)
        /\ k > 1
        /\ IF calls[k].idx = 1
           THEN calls[k - 1] = GroupCall(calls[k].row, TRUE)
           ELSE calls[k - 1] = MemberCall(calls[k].row, calls[k].idx - 1, TRUE)

\* a finished run with a row whose group was created, whose first owner was
\* added, whose second owner failed and whose third owner was never
\* attempted, and a row whose group creation failed
C10_Witness ==
    /\ gpc = "done"
    /\ \E r \in 1..Len(rows) :
           /\ rows[r].kind = "str" /\ Listed(r) = 3
           /\ GroupCreated(r)
           /\ \E k \in MemberCallsAt(r, 1) : calls[k].ok
           /\ \E k \in MemberCallsAt(r, 2) : ~calls[k].ok
           /\ MemberCallsAt(r, 3) = {}
    /\ \E r \in 1..Len(rows) :
           ~GroupCreated(r) /\ GroupCallsOf(r) # {} /\ MemberCallsOf(r) = {}

\* ============================================================= authenticate

NoCreds == [kind |-> "None"]

Absent == [kind |-> "absent"]

\* Credentials.from_authorized_user_file('token.json', SCOPES): the
\* attributes authenticate reads are token, expiry and refresh_token
from_authorized_user_file(f) ==
    [kind |-> "obj", token |-> f.token, expiry |-> f.expiry,
     refresh_token |-> f.refresh_token, origin |-> "cached"]

\* creds.to_json()
to_json(c) ==
    [kind |-> "creds", token |-> c.token, expiry |-> c.expiry,
     refresh_token |-> c.refresh_token]

\* creds.expired: an expiry is set and has passed
expired(c) == c.expiry = "past"

\* creds.valid: an access token is present and it is not expired
valid(c) == c.token /\ ~expired(c)

TokenFiles ==
    {Absent, [kind |-> "malformed"]}
    \cup {[kind |-> "creds", token |-> t, expiry |-> e, refresh_token |-> r] :
            t \in BOOLEAN, e \in {"none", "past", "future"}, r \in BOOLEAN}

SecretFiles == {Absent, [kind |-> "secret"]}

InitAuth ==
    /\ files \in [{"token.json", "credentials.json"} -> TokenFiles \cup SecretFiles]
    /\ files["token.json"] \in TokenFiles
    /\ files["credentials.json"] \in SecretFiles
    /\ loaded = NoCreds
    /\ creds = NoCreds
    /\ apc = "load"
    /\ events = <<>>
    /\ IdleG
    /\ IdleQ

\* creds = None; if os.path.exists('token.json'): creds = Credentials.from_...
LoadToken ==
    /\ apc = "load"
    /\ IF files["token.json"].kind = "creds"
       THEN /\ creds' = from_authorized_user_file(files["token.json"])
            /\ loaded' = from_authorized_user_file(files["token.json"])
            /\ apc' = "check"
       ELSE /\ UNCHANGED <<creds, loaded>>
            /\ apc' = IF files["token.json"].kind = "absent" THEN "check" ELSE "raised"
    /\ UNCHANGED <<files, events>>
    /\ UNCHANGED <<varsG, varsQ>>

NeedsAuthInverted(c) == c.kind = "None" \/ valid(c)

\* not creds or not creds.valid
NeedsAuth(c) == c.kind = "None" \/ ~valid(c)

\* creds and creds.expired and creds.refresh_token
CanRefresh(c) == c.kind # "None" /\ expired(c) /\ c.refresh_token

CheckValidWritesAnyway ==
    /\ apc = "check"
    /\ apc' = IF ~NeedsAuth(creds) THEN "write"
              ELSE IF CanRefresh(creds) THEN "refresh" ELSE "flow"
    /\ UNCHANGED <<files, loaded, creds, events>>
    /\ UNCHANGED <<varsG, varsQ>>

\* the two if statements of authenticate
CheckValid ==
    /\ apc = "check"
    /\ apc' = IF ~NeedsAuth(creds) THEN "return"
              ELSE IF CanRefresh(creds) THEN "refresh" ELSE "flow"
    /\ UNCHANGED <<files, loaded, creds, events>>
    /\ UNCHANGED <<varsG, varsQ>>

\* creds.refresh(Request()): updates creds in place, or raises
Refresh ==
    /\ apc = "refresh"
    /\ \E ok \in BOOLEAN :
         /\ events' = Append(events, [ev |-> "refresh", ok |-> ok])
         /\ creds' = IF ok
                     THEN [creds EXCEPT !.token = TRUE, !.expiry = "future",
                                        !.origin = "refreshed"]
                     ELSE creds
         /\ apc' = IF ok THEN "write" ELSE "raised"
    /\ UNCHANGED <<files, loaded>>
    /\ UNCHANGED <<varsG, varsQ>>

\* flow = InstalledAppFlow.from_client_secrets_file('credentials.json', SCOPES)
FromClientSecrets ==
    /\ apc = "flow"
    /\ apc' = IF files["credentials.json"].kind = "secret" THEN "server" ELSE "raised"
    /\ UNCHANGED <<files, loaded, creds, events>>
    /\ UNCHANGED <<varsG, varsQ>>

\* creds = flow.run_local_server(port=0)
RunLocalServer ==
    /\ apc = "server"
    /\ \E ok \in BOOLEAN, rt \in BOOLEAN :
         /\ events' = Append(events, [ev |-> "run_local_server", ok |-> ok])
         /\ creds' = IF ok
                     THEN [kind |-> "obj", token |-> TRUE, expiry |-> "future",
                           refresh_token |-> rt, origin |-> "flow"]
                     ELSE creds
         /\ apc' = IF ok THEN "write" ELSE "raised"
    /\ UNCHANGED <<files, loaded>>
    /\ UNCHANGED <<varsG, varsQ>>

\* with open('token.json', 'w') as token: token.write(creds.to_json())
WriteToken ==
    /\ apc = "write"
    /\ files' = [files EXCEPT !["token.json"] = to_json(creds)]
    /\ events' = Append(events, [ev |-> "write token.json", ok |-> TRUE])
    /\ apc' = "return"
    /\ UNCHANGED <<loaded, creds>>
    /\ UNCHANGED <<varsG, varsQ>>

NextAuth ==
    \/ LoadToken
    \/ CheckValid
    \/ Refresh
    \/ FromClientSecrets
    \/ RunLocalServer
    \/ WriteToken

SpecAuth == InitAuth /\ [][NextAuth]_vars

\* -------------------------------------------------- properties: authenticate

EventsOf(e) == {k \in 1..Len(events) : events[k].ev = e}

Obtained(k) == events[k].ev \in {"refresh", "run_local_server"} /\ events[k].ok

\* C6 (as stated): when token.json exists and the credential loaded from it
\* is not expired, run_local_server is never started, whatever the other
\* attributes of the credential.
C6_NotExpiredNeverInteractive ==
    (loaded.kind = "obj" /\ ~expired(loaded)) => EventsOf("run_local_server") = {}

\* C6 (amended): when token.json exists and the credential loaded from it is
\* valid (an access token is present and it is not expired), run_local_server
\* is never started, with or without a refresh token; no refresh and no file
\* write happens either.
C6_ValidNeverInteractive ==
    (loaded.kind = "obj" /\ valid(loaded)) =>
        /\ events = <<>>
        /\ apc \in {"check", "return"}

\* authenticate has returned the cached valid credential, which has no
\* refresh token
C6_Witness ==
    /\ loaded.kind = "obj" /\ valid(loaded) /\ ~loaded.refresh_token
    /\ apc = "return"
    /\ creds = loaded

\* C7: when the cached token is expired and has a refresh token, the refresh
\* is attempted before any interactive login, and a run whose refresh did
\* not yield a credential falls back to the interactive login.
C7_RefreshThenFallBackToInteractive ==
    (loaded.kind = "obj" /\ expired(loaded) /\ loaded.refresh_token) =>
        /\ \A k \in EventsOf("run_local_server") : \E j \in EventsOf("refresh") : j < k
        /\ (apc \in {"return", "raised"}
              /\ (\E j \in EventsOf("refresh") : ~events[j].ok))
           => EventsOf("run_local_server") # {}

C8_Writes ==
    /\ Cardinality(EventsOf("write token.json")) <= 1
    /\ \A k \in EventsOf("write token.json") : k > 1 /\ Obtained(k - 1)
    /\ \A k \in 1..Len(events) : Obtained(k) =>
           /\ creds.origin = (IF events[k].ev = "refresh" THEN "refreshed" ELSE "flow")
           /\ valid(creds)
    /\ apc = "return" =>
          /\ (EventsOf("write token.json") # {}) <=> (\E k \in 1..Len(events) : Obtained(k))
          /\ (EventsOf("write token.json") # {}) => files["token.json"] = to_json(creds)
          /\ (loaded.kind = "obj" /\ valid(loaded)) => files["token.json"] = to_json(loaded)
    /\ apc = "raised" => EventsOf("write token.json") = {}

C8_FileChange ==
    files' # files =>
        /\ events' = Append(events, [ev |-> "write token.json", ok |-> TRUE])
        /\ \E k \in 1..Len(events) : Obtained(k)
        /\ files' = [files EXCEPT !["token.json"] = to_json(creds)]
        /\ creds.origin \in {"refreshed", "flow"}

\* C8: authenticate writes token.json exactly when a refresh or an
\* interactive flow of this run succeeded, and it writes that new
\* credential; with a valid cached credential, or when the refresh or the
\* flow raises, token.json keeps its content; no other file is ever written.
C8_TokenWrittenIffNewCredential == []C8_Writes /\ [][C8_FileChange]_vars

\* authenticate has returned after a successful refresh and token.json now
\* holds the refreshed credential, which differs from the cached one
C8_Witness ==
    /\ apc = "return"
    /\ creds.kind = "obj" /\ creds.origin = "refreshed"
    /\ files["token.json"] = to_json(creds)
    /\ to_json(loaded) # files["token.json"]

\* ======================================================= quick_auth_setup.py

service_account_paths ==
    <<"service-account.json", "credentials.json",
      "~/.config/gcloud/service-account.json">>

\* how far one authentication method gets: obtaining the credentials raises,
\* build() raises, the domains().list() probe raises, or all three succeed
Outcomes == {"credentials_raise", "build_raise", "list_raise", "ok"}

Probe(out) ==
    IF out \in {"list_raise", "ok"}
    THEN <<[op |-> "domains.list", phase |-> "auth", ok |-> (out = "ok")]>>
    ELSE <<>>

InitQuick ==
    /\ saFiles \in SUBSET {service_account_paths[i] : i \in 1..3}
    /\ qpc = "adc"
    /\ saIdx = 0
    /\ attempts = <<>>
    /\ qcalls = <<>>
    /\ result = "None"
    /\ testResult = "unset"
    /\ marker = FALSE
    /\ IdleG
    /\ IdleA

TryADCSkipsToGcloud ==
    /\ qpc = "adc"
    /\ \E out \in Outcomes :
         /\ attempts' = Append(attempts, [method |-> "adc", outcome |-> out])
         /\ qcalls' = qcalls \o Probe(out)
         /\ result' = IF out = "ok" THEN "adc" ELSE result
         /\ qpc' = IF out = "ok" THEN "main_if" ELSE "gcloud"
         /\ saIdx' = IF out = "ok" THEN saIdx ELSE 1
    /\ UNCHANGED <<saFiles, testResult, marker>>
    /\ UNCHANGED <<varsG, varsA>>

\* Method 1: Application Default Credentials
TryADC ==
    /\ qpc = "adc"
    /\ \E out \in Outcomes :
         /\ attempts' = Append(attempts, [method |-> "adc", outcome |-> out])
         /\ qcalls' = qcalls \o Probe(out)
         /\ result' = IF out = "ok" THEN "adc" ELSE result
         /\ qpc' = IF out = "ok" THEN "main_if" ELSE "sa"
         /\ saIdx' = IF out = "ok" THEN saIdx ELSE 1
    /\ UNCHANGED <<saFiles, testResult, marker>>
    /\ UNCHANGED <<varsG, varsA>>

\* for path in service_account_paths: if os.path.exists(path) is false
SkipMissingPath ==
    /\ qpc = "sa"
    /\ service_account_paths[saIdx] \notin saFiles
    /\ saIdx' = saIdx + 1
    /\ qpc' = IF saIdx < 3 THEN "sa" ELSE "gcloud"
    /\ UNCHANGED <<saFiles, attempts, qcalls, result, testResult, marker>>
    /\ UNCHANGED <<varsG, varsA>>

\* Method 2: the service-account key file at an existing path
TryServiceAccount ==
    /\ qpc = "sa"
    /\ service_account_paths[saIdx] \in saFiles
    /\ \E out \in Outcomes :
         /\ attempts' = Append(attempts,
                [method |-> service_account_paths[saIdx], outcome |-> out])
         /\ qcalls' = qcalls \o Probe(out)
         /\ result' = IF out = "ok" THEN service_account_paths[saIdx] ELSE result
         /\ qpc' = IF out = "ok" THEN "main_if"
                   ELSE IF saIdx < 3 THEN "sa" ELSE "gcloud"
         /\ saIdx' = IF out = "ok" THEN saIdx ELSE saIdx + 1
    /\ UNCHANGED <<saFiles, testResult, marker>>
    /\ UNCHANGED <<varsG, varsA>>

\* Method 3: gcloud auth application-default login, then default();
\* when it fails too, return None, None
TryGcloud ==
    /\ qpc = "gcloud"
    /\ \E out \in Outcomes :
         /\ attempts' = Append(attempts, [method |-> "gcloud", outcome |-> out])
         /\ qcalls' = qcalls \o Probe(out)
         /\ result' = IF out = "ok" THEN "gcloud" ELSE "None"
         /\ qpc' = "main_if"
    /\ UNCHANGED <<saFiles, saIdx, testResult, marker>>
    /\ UNCHANGED <<varsG, varsA>>

MainCheckMarkerOutsideIf ==
    /\ qpc = "main_if"
    /\ qpc' = IF result # "None" THEN "test_domains" ELSE "end"
    /\ marker' = (result = "None")
    /\ UNCHANGED <<saFiles, saIdx, attempts, qcalls, result, testResult>>
    /\ UNCHANGED <<varsG, varsA>>

\* main: credentials, service = try_authentication(); if credentials and service
MainCheck ==
    /\ qpc = "main_if"
    /\ qpc' = IF result # "None" THEN "test_domains" ELSE "end"
    /\ UNCHANGED <<saFiles, saIdx, attempts, qcalls, result, testResult, marker>>
    /\ UNCHANGED <<varsG, varsA>>

\* test_workspace_access: service.domains().list(...).execute() and the loop
\* that prints domain['domainName'] and domain['verified'] of every entry
TestDomains ==
    /\ qpc = "test_domains"
    /\ \E out \in {"raise", "entry_without_key", "ok"} :
         /\ qcalls' = Append(qcalls,
                [op |-> "domains.list", phase |-> "test", ok |-> (out # "raise")])
         /\ testResult' = IF out = "ok" THEN testResult ELSE "False"
         /\ qpc' = IF out = "ok" THEN "test_users" ELSE "main_test_if"
    /\ UNCHANGED <<saFiles, saIdx, attempts, result, marker>>
    /\ UNCHANGED <<varsG, varsA>>

TestUsersIgnoresFailure ==
    /\ qpc = "test_users"
    /\ \E ok \in BOOLEAN :
         /\ qcalls' = Append(qcalls, [op |-> "users.list", phase |-> "test", ok |-> ok])
         /\ testResult' = testResult
         /\ qpc' = "test_groups"
    /\ UNCHANGED <<saFiles, saIdx, attempts, result, marker>>
    /\ UNCHANGED <<varsG, varsA>>

\* test_workspace_access: service.users().list(...).execute()
TestUsers ==
    /\ qpc = "test_users"
    /\ \E ok \in BOOLEAN :
         /\ qcalls' = Append(qcalls, [op |-> "users.list", phase |-> "test", ok |-> ok])
         /\ testResult' = IF ok THEN testResult ELSE "False"
         /\ qpc' = IF ok THEN "test_groups" ELSE "main_test_if"
    /\ UNCHANGED <<saFiles, saIdx, attempts, result, marker>>
    /\ UNCHANGED <<varsG, varsA>>

\* test_workspace_access: service.groups().list(...).execute(); return True
TestGroups ==
    /\ qpc = "test_groups"
    /\ \E ok \in BOOLEAN :
         /\ qcalls' = Append(qcalls, [op |-> "groups.list", phase |-> "test", ok |-> ok])
         /\ testResult' = IF ok THEN "True" ELSE "False"
         /\ qpc' = "main_test_if"
    /\ UNCHANGED <<saFiles, saIdx, attempts, result, marker>>
    /\ UNCHANGED <<varsG, varsA>>

\* main: if test_workspace_access(service): ... open('auth_working.json', 'w')
MainAfterTest ==
    /\ qpc = "main_test_if"
    /\ marker' = (testResult = "True")
    /\ qpc' = "end"
    /\ UNCHANGED <<saFiles, saIdx, attempts, qcalls, result, testResult>>
    /\ UNCHANGED <<varsG, varsA>>

NextQuick ==
    \/ TryADC
    \/ SkipMissingPath
    \/ TryServiceAccount
    \/ TryGcloud
    \/ MainCheck
    \/ TestDomains
    \/ TestUsers
    \/ TestGroups
    \/ MainAfterTest

SpecQuick == InitQuick /\ [][NextQuick]_vars

\* --------------------------------------------- properties: quick_auth_setup

Methods == <<"adc">> \o service_account_paths \o <<"gcloud">>

Exists(m) == m \in {"adc", "gcloud"} \/ m \in saFiles

\* the methods this run can attempt, in the documented order
Available == SelectSeq(Methods, Exists)

Returned == qpc \notin {"adc", "sa", "gcloud"}

AllFailed == \A k \in 1..Len(attempts) : attempts[k].outcome # "ok"

TestCalls == SelectSeq(qcalls, LAMBDA c : c.phase = "test")

\* C4: the methods are attempted in the order ADC, the existing
\* service-account files in list order, gcloud; a method is attempted only
\* after every earlier one failed, a failed method is followed by the next
\* one, and nothing is attempted after the first success.
C4_FixedOrderUntilFirstSuccess ==
    /\ Len(attempts) <= Len(Available)
    /\ \A k \in 1..Len(attempts) : attempts[k].method = Available[k]
    /\ \A k \in 1..(Len(attempts) - 1) : attempts[k].outcome # "ok"
    /\ Returned =>
          \/ attempts # <<>> /\ attempts[Len(attempts)].outcome = "ok"
                /\ result = attempts[Len(attempts)].method
          \/ AllFailed /\ Len(attempts) = Len(Available)

\* try_authentication has returned the credentials of the second existing
\* service-account file after ADC and the first file failed
C4_Witness ==
    /\ Returned
    /\ Len(attempts) = 3
    /\ attempts[1].method = "adc"
    /\ attempts[3].method = "~/.config/gcloud/service-account.json"
    /\ result = "~/.config/gcloud/service-account.json"

\* C5: when every method failed, try_authentication returns None without
\* having attempted a method twice, and main ends the run there: no
\* test_workspace_access, no further remote call, no auth_working.json.
C5_AllFailedIsTerminal ==
    (Returned /\ AllFailed) =>
        /\ result = "None"
        /\ \A k \in 1..Len(attempts) : \A m \in 1..Len(attempts) :
               attempts[k].method = attempts[m].method => k = m
        /\ qpc \in {"main_if", "end"}
        /\ testResult = "unset"
        /\ TestCalls = <<>>
        /\ marker = FALSE

\* main has ended after all five methods were attempted and failed
C5_Witness ==
    /\ qpc = "end"
    /\ AllFailed
    /\ Len(attempts) = 5
    /\ result = "None"

TestOk(op) == \E k \in 1..Len(TestCalls) : TestCalls[k].op = op /\ TestCalls[k].ok

\* C9: test_workspace_access issues only list calls and returns a boolean:
\* True exactly when the domains, users and groups list calls all succeeded;
\* main writes auth_working.json exactly when try_authentication returned a
\* credential and test_workspace_access returned True.
C9_TestResultAndMarker ==
    /\ \A k \in 1..Len(qcalls) :
           qcalls[k].op \in {"domains.list", "users.list", "groups.list"}
    /\ testResult # "unset" =>
           (testResult = "True" <=>
               (TestOk("domains.list") /\ TestOk("users.list") /\ TestOk("groups.list")))
    /\ qpc \in {"main_test_if", "end"} /\ result # "None" => testResult \in {"True", "False"}
    /\ marker => qpc = "end"
    /\ qpc = "end" => (marker <=> (result # "None" /\ testResult = "True"))

\* a finished run whose credential was found but whose users list call
\* failed, so that no marker file was written
C9_Witness ==
    /\ qpc = "end"
    /\ result # "None"
    /\ testResult = "False"
    /\ TestOk("domains.list") /\ ~TestOk("users.list")
    /\ Len(TestCalls) = 2
    /\ ~marker

====
